---- MODULE Spec2Model ----
(***************************************************************************)
(* A model of issjobs.py, the ISS jobs server: the password gate and its   *)
(* attempt log, job naming, the config rewriter, the fire-and-forget       *)
(* launcher with its marker files, and the handlers that read job status.  *)
(* Strings are sequences of one-character strings; the output directory is *)
(* a function from directory names to the files each directory holds.      *)
(***************************************************************************)
EXTENDS Integers, Sequences, FiniteSets, TLC

(* ------------------------------ bounds -------------------------------- *)

\* Number of submit requests the server handles, each on its own thread.
NumRequests == 2
\* The clock runs over the seconds 0..MaxClock of one minute.
MaxClock == 1
\* The attempt log starts at most this many lines below its ceiling.
LogHeadroom == 1

(* ------------------------- program constants -------------------------- *)

\* confirm_password_log_not_full: "return nlines < 100"
LOG_LIMIT == 100

Req == 1..NumRequests

BS == "\\"
NL == "\n"

Digits == <<"0", "1", "2", "3", "4", "5", "6", "7", "8", "9">>
Uppers == <<"A", "B", "C", "D", "E", "F", "G", "H", "I", "J", "K", "L", "M",
            "N", "O", "P", "Q", "R", "S", "T", "U", "V", "W", "X", "Y", "Z">>
Lowers == <<"a", "b", "c", "d", "e", "f", "g", "h", "i", "j", "k", "l", "m",
            "n", "o", "p", "q", "r", "s", "t", "u", "v", "w", "x", "y", "z">>

Range(s) == {s[i] : i \in DOMAIN s}

\* The character order sorted() compares strings by (code points), over the
\* characters the model uses.
Ascii == <<NL, " ", "-", ".", "/">> \o Digits \o <<":">> \o Uppers
         \o <<BS, "_">> \o Lowers

Ord(c) == CHOOSE i \in DOMAIN Ascii : Ascii[i] = c

\* str.lower() on one character, as re.IGNORECASE folds it.
Lower(c) == IF \E i \in DOMAIN Uppers : Uppers[i] = c
            THEN Lowers[CHOOSE i \in DOMAIN Uppers : Uppers[i] = c]
            ELSE c

\* The class [A-Za-z0-9_] of jobname's re.sub.
JobnameClass == Range(Uppers) \cup Range(Lowers) \cup Range(Digits) \cup {"_"}
\* The class [A-Za-z0-9_-] of view's and showini's re.sub.
JobParamClass == JobnameClass \cup {"-"}

\* re.sub(r'[^class]', '', s): s without the characters outside the class.
RECURSIVE Strip(_, _)
Strip(s, class) ==
    IF s = <<>> THEN <<>>
    ELSE (IF Head(s) \in class THEN <<Head(s)>> ELSE <<>>) \o Strip(Tail(s), class)

(* ----------------------------- the state ------------------------------ *)

VARIABLES
    now,         \* the clock: the second it showed when last read
    servers,     \* SERVERS: the registry, a sequence of [name, path]
    attemptLog,  \* number of lines of PASSWORD_ACCESS_LOG
    logRecords,  \* number of attempt records (loglines written) it holds
    fs,          \* OUTPUT_DIR: directory name -> (file name -> contents)
    proc,        \* launched job -> its shell command: [state, status], where
                 \* status holds the exit status while the shell has it
    req,         \* submit request -> its position and locals
    out          \* what the last /view or /ini request did

vars == <<now, servers, attemptLog, logRecords, fs, proc, req, out>>

(* --------------------------- pure functions --------------------------- *)

\* The stripped contents of PASSWORD_FILE; the startup assert (line 45)
\* guarantees it is not the empty string.
PASSWORD == <<"p", "w">>

\* check_password(p): "return p == password".
check_password(p) == p = PASSWORD

\* The check with its comparison off by one.
confirm_password_log_not_full_le(nlines) == nlines <= LOG_LIMIT

\* confirm_password_log_not_full(): "return nlines < 100".
confirm_password_log_not_full(nlines) == nlines < LOG_LIMIT

RECURSIVE Count(_, _)
Count(s, c) ==
    IF s = <<>> THEN 0
    ELSE (IF Head(s) = c THEN 1 ELSE 0) + Count(Tail(s), c)

\* The log opened in mode "w" instead of "a".
log_incorrect_password_truncating(nlines, p) == 1 + Count(p, NL)

\* log_incorrect_password(p) opens the log in append mode and writes one
\* logline, "date=..., ip=..., password={p}\n": the line count that
\* readlines() later reports grows by one and by every newline inside p.
log_incorrect_password(nlines, p) == nlines + 1 + Count(p, NL)

\* str(n) for n >= 0.
RECURSIVE str(_)
str(n) == IF n < 10 THEN <<Digits[n + 1]>>
          ELSE str(n \div 10) \o <<Digits[(n % 10) + 1]>>

\* datetime.today().strftime('%Y-%m-%d_%H-%M-%S') at second t of the
\* modelled minute: every field is zero padded to a fixed width.
strftime(t) ==
    <<"2", "0", "2", "2", "-", "0", "6", "-", "0", "1", "_",
      "0", "0", "-", "0", "0", "-">>
    \o <<Digits[(t \div 10) + 1], Digits[(t % 10) + 1]>>

\* The label used as it came.
sanitise_label_unfiltered(chosen) == chosen

\* jobname, line 72: re.sub(r'[^A-Za-z0-9_]', '', chosen).
sanitise_label(chosen) == Strip(chosen, JobnameClass)

\* jobname, lines 76-80: the loop that appends 0, 1, ... while the
\* directory exists.
RECURSIVE jobname_loop(_, _, _, _)
jobname_loop(dirs, sanitised, jname, suffix) ==
    IF jname \in dirs
    THEN jobname_loop(dirs, sanitised, sanitised \o str(suffix), suffix + 1)
    ELSE jname

\* jobname(chosen) at second t, with dirs the directories of OUTPUT_DIR.
jobname(chosen, t, dirs) ==
    LET s0 == sanitise_label(chosen)
        s1 == IF s0 = <<>> THEN <<"j", "o", "b">> ELSE s0
        sanitised == strftime(t) \o <<"_">> \o s1
    IN jobname_loop(dirs, sanitised, sanitised, 0)

\* The class widened by the characters of a path.
sanitise_job_lax(job) == Strip(job, JobParamClass \cup {".", "/"})

\* view and showini: re.sub(r'[^A-Za-z0-9_-]', '', job).
sanitise_job(job) == Strip(job, JobParamClass)

\* Whether lit occurs in text at position i (case folded under IGNORECASE).
MatchAt(text, i, lit, fold) ==
    /\ i + Len(lit) - 1 <= Len(text)
    /\ \A k \in 1..Len(lit) :
          IF fold THEN Lower(text[i + k - 1]) = Lower(lit[k])
          ELSE text[i + k - 1] = lit[k]

Occurs(text, lit, fold) == \E i \in 1..Len(text) : MatchAt(text, i, lit, fold)

\* Every non-overlapping occurrence of lit, leftmost first, replaced by
\* repl: str.replace, and re.sub for a pattern that matches a literal.
RECURSIVE ReplaceFrom(_, _, _, _, _)
ReplaceFrom(text, i, lit, repl, fold) ==
    IF i > Len(text) THEN <<>>
    ELSE IF MatchAt(text, i, lit, fold)
         THEN repl \o ReplaceFrom(text, i + Len(lit), lit, repl, fold)
         ELSE <<text[i]>> \o ReplaceFrom(text, i + 1, lit, repl, fold)

\* Compiling a pattern made of literal characters and backslash escapes: a
\* backslash takes the next character literally, and a backslash that ends
\* the pattern is re.error("bad escape (end of pattern)").
RECURSIVE re_compile(_)
re_compile(pattern) ==
    IF pattern = <<>> THEN [ok |-> TRUE, lit |-> <<>>]
    ELSE IF Head(pattern) = BS
         THEN IF Len(pattern) = 1 THEN [ok |-> FALSE, lit |-> <<>>]
              ELSE LET rest == re_compile(SubSeq(pattern, 3, Len(pattern)))
                   IN [ok |-> rest.ok, lit |-> <<pattern[2]>> \o rest.lit]
         ELSE LET rest == re_compile(Tail(pattern))
              IN [ok |-> rest.ok, lit |-> <<Head(pattern)>> \o rest.lit]

\* re.sub(pattern, repl, text, flags=re.IGNORECASE): the pattern is compiled
\* first, so a bad pattern raises whatever the text is.
re_sub(pattern, repl, text) ==
    LET c == re_compile(pattern)
    IN IF c.ok THEN [ok |-> TRUE, text |-> ReplaceFrom(text, 1, c.lit, repl, TRUE)]
       ELSE [ok |-> FALSE, text |-> text]

\* The patterns of fix_ini, lines 166-167, as Python builds them:
\* "\\\\" + servername + "\\" is two backslashes, the name, one backslash.
UncPattern(servername) == <<BS, BS>> \o servername \o <<BS>>
SmbPattern(servername) == <<"s", "m", "b", ":", "/", "/">> \o servername \o <<"/">>

\* fix_ini, lines 165-167: the loop over SERVERS.items().
RECURSIVE fix_ini_loop(_, _)
fix_ini_loop(contents, items) ==
    IF items = <<>> THEN [ok |-> TRUE, text |-> contents]
    ELSE LET s == Head(items)
             a == re_sub(UncPattern(s.name), s.path, contents)
             b == re_sub(SmbPattern(s.name), s.path, a.text)
         IN IF ~a.ok THEN a
            ELSE IF ~b.ok THEN b
            ELSE fix_ini_loop(b.text, Tail(items))

Banner == <<";;; WARNING - This file is autogenerated from the real config file config.original.ini.  Paths and escape sequences have been modified.\n\n\n">>

\* fix_ini, lines 162-171, on the text of config.original.ini: ok is FALSE
\* when it raises (config.ini is then never written), otherwise text is
\* what it writes to config.ini.
fix_ini(contents, items) ==
    LET l == fix_ini_loop(contents, items)
    IN IF ~l.ok THEN l
       ELSE [ok |-> TRUE,
             text |-> Banner \o ReplaceFrom(l.text, 1, <<BS, BS>>, <<"/">>, FALSE)]

\* The two touch commands joined by ";" instead of "&&" and "||".
shell_markers_both(status) == {"success", "complete"}

\* run, line 177: "... && touch success || touch complete", given the exit
\* status of the iss process: the files the shell creates.
shell_markers(status) == IF status = 0 THEN {"success"} ELSE {"complete"}

(* ------------------------ reading the directory ----------------------- *)

\* Python's order on strings: by code point, a proper prefix first.
RECURSIVE LexLess(_, _)
LexLess(a, b) ==
    IF a = <<>> THEN b # <<>>
    ELSE IF b = <<>> THEN FALSE
    ELSE IF a[1] # b[1] THEN Ord(a[1]) < Ord(b[1])
    ELSE LexLess(Tail(a), Tail(b))

\* sorted(S), ascending.
RECURSIVE sorted(_)
sorted(S) ==
    IF S = {} THEN <<>>
    ELSE LET m == CHOOSE x \in S : \A y \in S : x = y \/ LexLess(x, y)
         IN <<m>> \o sorted(S \ {m})

\* l[::-1]
Reverse(l) == [i \in 1..Len(l) |-> l[Len(l) + 1 - i]]

isdir(dir, d) == d \in DOMAIN dir
isfile(dir, d, f) == d \in DOMAIN dir /\ f \in DOMAIN dir[d]

\* [f.split("/")[-2] for f in sorted(glob.glob(f"{OUTPUT_DIR}/*/{file}"))[::-1]]:
\* the paths are sorted, so the names are ordered by name + "/".
glob_names(dir, file) ==
    LET paths == {d \o <<"/">> : d \in {x \in DOMAIN dir : file \in DOMAIN dir[x]}}
        desc == Reverse(sorted(paths))
    IN [i \in 1..Len(desc) |-> SubSeq(desc[i], 1, Len(desc[i]) - 1)]

\* currently_running(), lines 108-116.
currently_running(dir) ==
    LET names_log == glob_names(dir, "output.log")
        names_completed == glob_names(dir, "complete") \o glob_names(dir, "success")
    IN sorted(Range(names_log) \ Range(names_completed))

\* succeeded(), lines 118-122.
succeeded(dir) == sorted(Range(glob_names(dir, "success")))

\* failed(), lines 124-128: it globs the success markers, as succeeded does.
failed(dir) == sorted(Range(glob_names(dir, "success")))

\* The two isfile checks in the other order.
view_status_complete_first(dir, job) ==
    IF isfile(dir, job, "complete") THEN "error"
    ELSE IF isfile(dir, job, "success") THEN "success"
    ELSE ""

\* view, lines 192-197: the status shown for a job directory.
view_status(dir, job) ==
    IF isfile(dir, job, "success") THEN "success"
    ELSE IF isfile(dir, job, "complete") THEN "error"
    ELSE ""

\* A path a handler opens: in the application's directory (templates) or
\* in a job directory of OUTPUT_DIR.
AppPath(file) == [root |-> "app", dir |-> <<>>, file |-> file]
JobPath(d, file) == [root |-> "output", dir |-> d, file |-> file]

NoOut == [handler |-> "none", hasjob |-> FALSE, job |-> <<>>, resp |-> "",
          status |-> "", opened |-> {}, names |-> <<>>, succeeded |-> <<>>,
          running |-> <<>>]

\* view(), lines 182-207, as a function of the request and the directory.
view(dir, hasjob, job) ==
    LET base == [NoOut EXCEPT !.handler = "view", !.hasjob = hasjob, !.job = job]
        job_safe == sanitise_job(job)
    IN IF hasjob
       THEN IF job_safe # job
            THEN [base EXCEPT !.resp = "redirect /?m=Invalid file",
                              !.opened = {AppPath("_job_template.html")}]
            ELSE IF ~isfile(dir, job_safe, "output.log")
            THEN [base EXCEPT !.resp = "exception",
                              !.opened = {AppPath("_job_template.html"),
                                          JobPath(job_safe, "output.log")}]
            ELSE [base EXCEPT !.resp = "page",
                              !.status = view_status(dir, job_safe),
                              !.opened = {AppPath("_job_template.html"),
                                          JobPath(job_safe, "output.log")}]
       ELSE [base EXCEPT !.resp = "list",
                         !.opened = {AppPath("_list_template.html")},
                         !.names = glob_names(dir, "output.log"),
                         !.succeeded = succeeded(dir),
                         !.running = currently_running(dir)]

\* showini(), lines 211-221.
showini(dir, hasjob, job) ==
    LET base == [NoOut EXCEPT !.handler = "ini", !.hasjob = hasjob, !.job = job]
        job_safe == sanitise_job(job)
    IN IF ~hasjob THEN [base EXCEPT !.resp = "redirect /?m=Invalid file"]
       ELSE IF job_safe # job THEN [base EXCEPT !.resp = "redirect /?m=Invalid file"]
       ELSE IF ~isfile(dir, job_safe, "config.original.ini")
       THEN [base EXCEPT !.resp = "redirect /?m=Invalid job name"]
       ELSE [base EXCEPT !.resp = "file",
                         !.opened = {JobPath(job_safe, "config.original.ini")}]

(* ------------------------------- inputs ------------------------------- *)

\* The passwords a client submits: the right one, a wrong one, and a wrong
\* one that holds a line break.
Passwords == {PASSWORD, <<"x">>, <<"x", NL, "y">>}

\* The labels a client submits: none, only disallowed characters, mixed.
Labels == {<<>>, <<".", "/">>, <<"a", "-", "0">>}

\* f.filename of the uploaded file: empty when no file was chosen.
Filenames == {"", "iss.ini"}

\* The uploaded text:  \\FS\d smb://fs/d c:\\x
Uploads == {<<BS, BS, "F", "S", BS, "d", " ", "s", "m", "b", ":", "/", "/", "f", "s", "/", "d",
              " ", "c", ":", BS, BS, "x">>}

\* The [servers] section of config.ini: empty, or one share (configparser
\* lower-cases the keys).
Registries == {<<>>, <<[name |-> <<"f", "s">>, path |-> <<"/", "m", "n", "t">>]>>}

\* Exit statuses of the iss process: success, an error, killed by SIGKILL.
ExitStatuses == {0, 1, 137}

\* Values of the job parameter that name no job directory: a traversal
\* attempt, and a well-formed name.
OtherJobParams == {<<".", ".", "/", ".", ".", "/", "e", "t", "c", "/", "p", "a", "s", "s", "w", "d">>,
                   <<"n", "o", "-", "j", "o", "b">>}

\* The first line run writes to output.log.
StartedLine == <<"Started output for job">>

(* ------------------------------ the server ---------------------------- *)

IdleReq == [pc |-> "idle", pass |-> <<>>, label |-> <<>>, stamp |-> 0,
            name |-> <<>>, resp |-> ""]

\* The server starts with an attempt log that earlier failures have filled
\* to just below its ceiling, and an empty output directory.
Init ==
    /\ now = 0
    /\ servers \in Registries
    /\ attemptLog \in (LOG_LIMIT - LogHeadroom)..(LOG_LIMIT - 1)
    /\ logRecords = attemptLog
    /\ fs = <<>>
    /\ proc = <<>>
    /\ req = [r \in Req |-> IdleReq]
    /\ out = NoOut

\* The handler returns: its locals are gone, the response stays (name is
\* the job name a redirect to the job's page carries).
Respond(r, resp, name) ==
    [req EXCEPT ![r] = [IdleReq EXCEPT !.pc = "done", !.pass = req[r].pass,
                                       !.resp = resp, !.name = name]]

\* submit, lines 140-142: a POST /submit arrives with its form (requests
\* are numbered in the order they arrive); the attempt log is read and its
\* lines counted.
SubmitCheckLog(r, p) ==
    /\ req[r].pc = "idle"
    /\ \A q \in Req : q < r => req[q].pc # "idle"
    /\ req' = IF confirm_password_log_not_full(attemptLog)
              THEN [req EXCEPT ![r].pc = "password", ![r].pass = p]
              ELSE [req EXCEPT ![r] = [IdleReq EXCEPT !.pc = "done", !.pass = p,
                                                      !.resp = "Urgent system error"]]
    /\ UNCHANGED <<now, servers, attemptLog, logRecords, fs, proc, out>>

\* submit, lines 143-145: the password is checked and a wrong one logged.
SubmitPassword(r) ==
    /\ req[r].pc = "password"
    /\ IF ~check_password(req[r].pass)
       THEN /\ attemptLog' = log_incorrect_password(attemptLog, req[r].pass)
            /\ logRecords' = logRecords + 1
            /\ req' = Respond(r, "redirect /?m=Password incorrect", <<>>)
       ELSE /\ req' = [req EXCEPT ![r].pc = "jobname"]
            /\ UNCHANGED <<attemptLog, logRecords>>
    /\ UNCHANGED <<now, servers, fs, proc, out>>

\* submit, lines 146-149: jobname reads the clock, which shows second t, no
\* earlier than it showed last, and the directory; then the upload's file
\* name is checked.
SubmitJobname(r, label, filename, t) ==
    /\ req[r].pc = "jobname"
    /\ t >= now
    /\ now' = t
    /\ LET name == jobname(label, t, DOMAIN fs)
       IN req' = IF filename = ""
                 THEN Respond(r, "redirect /?m=No file uploaded", <<>>)
                 ELSE [req EXCEPT ![r].pc = "mkdir", ![r].label = label,
                                  ![r].stamp = t, ![r].name = name]
    /\ UNCHANGED <<servers, attemptLog, logRecords, fs, proc, out>>

\* submit, lines 150-154. os.mkdir raises FileExistsError when the
\* directory exists. Otherwise the upload is saved as config.original.ini;
\* fix_ini writes config.ini, or raises, which ends the request before run;
\* run writes the first line of output.log and starts the shell command;
\* and the client is redirected to the job's page.
SubmitMkdirRun(r, upload) ==
    /\ req[r].pc = "mkdir"
    /\ LET name == req[r].name
           fixed == fix_ini(upload, servers)
       IN IF isdir(fs, name)
          THEN /\ req' = Respond(r, "exception", <<>>)
               /\ UNCHANGED <<fs, proc>>
          ELSE IF ~fixed.ok
          THEN /\ fs' = (name :> ("config.original.ini" :> upload)) @@ fs
               /\ req' = Respond(r, "exception", <<>>)
               /\ UNCHANGED proc
          ELSE /\ fs' = (name :> (("config.original.ini" :> upload)
                                  @@ ("config.ini" :> fixed.text)
                                  @@ ("output.log" :> StartedLine))) @@ fs
               /\ proc' = (name :> [state |-> "running", status |-> <<>>]) @@ proc
               /\ req' = Respond(r, "redirect /view?job=", name)
    /\ UNCHANGED <<now, servers, attemptLog, logRecords, out>>

\* The iss process of a launched job ends with an exit status.
ProcExit(j, status) ==
    /\ j \in DOMAIN proc
    /\ proc[j].state = "running"
    /\ proc' = [proc EXCEPT ![j] = [state |-> "exited", status |-> <<status>>]]
    /\ UNCHANGED <<now, servers, attemptLog, logRecords, fs, req, out>>

\* The shell goes on after the iss process: touch success or touch
\* complete, and the shell command is over.
ShellTouch(j) ==
    /\ j \in DOMAIN proc
    /\ proc[j].state = "exited"
    /\ fs' = [fs EXCEPT ![j] = @ @@ [m \in shell_markers(proc[j].status[1]) |-> <<>>]]
    /\ proc' = [proc EXCEPT ![j] = [state |-> "finished", status |-> <<>>]]
    /\ UNCHANGED <<now, servers, attemptLog, logRecords, req, out>>

Submit ==
    \E r \in Req :
        \/ \E p \in Passwords : SubmitCheckLog(r, p)
        \/ SubmitPassword(r)
        \/ \E label \in Labels, filename \in Filenames, t \in 0..MaxClock :
              SubmitJobname(r, label, filename, t)
        \/ \E upload \in Uploads : SubmitMkdirRun(r, upload)

Job ==
    \E j \in DOMAIN proc :
        \/ \E status \in ExitStatuses : ProcExit(j, status)
        \/ ShellTouch(j)

Next == Submit \/ Job

Spec == Init /\ [][Next]_vars

\* Jobs launch when the registry is empty (fix_ini raises before run
\* otherwise): the server with an empty registry and the attempt log at its
\* lowest start.
InitLaunch == Init /\ servers = <<>> /\ attemptLog = LOG_LIMIT - LogHeadroom

\* The operating system runs the shell's next command once the iss process
\* has exited.
FairSpec ==
    InitLaunch /\ [][Next]_vars /\ WF_vars(\E j \in DOMAIN proc : ShellTouch(j))

(* ------------------------- the reading handlers ----------------------- *)

\* GET /view, with or without the job parameter.
View(hasjob, job) ==
    /\ out' = view(fs, hasjob, job)
    /\ UNCHANGED <<now, servers, attemptLog, logRecords, fs, proc, req>>

\* GET /ini, with or without the job parameter.
ShowIni(hasjob, job) ==
    /\ out' = showini(fs, hasjob, job)
    /\ UNCHANGED <<now, servers, attemptLog, logRecords, fs, proc, req>>

\* view and showini are functions of the request and of the output
\* directory as it is when they read it: they are applied to every content
\* of two job directories, whatever left the files there.
JobFiles == {"config.original.ini", "output.log", "success", "complete"}

JobNames == {jobname(<<>>, 0, {}), jobname(<<>>, 0, {jobname(<<>>, 0, {})})}

InitRead ==
    /\ now = 0
    /\ servers = <<>>
    /\ attemptLog = 0
    /\ logRecords = 0
    /\ \E dirs \in SUBSET JobNames :
          \E files \in [dirs -> SUBSET JobFiles] :
              fs = [d \in dirs |-> [f \in files[d] |-> <<>>]]
    /\ proc = <<>>
    /\ req = [r \in Req |-> IdleReq]
    /\ out = NoOut

JobParams == DOMAIN fs \cup OtherJobParams

Read ==
    \/ \E job \in JobParams : View(TRUE, job)
    \/ View(FALSE, <<>>)
    \/ \E job \in JobParams : ShowIni(TRUE, job)
    \/ ShowIni(FALSE, <<>>)

ReadSpec == InitRead /\ [][Read]_vars

(* ------------------------------ properties ---------------------------- *)

MarkersIn(dir, j) == {m \in {"success", "complete"} : isfile(dir, j, m)}
Markers(j) == MarkersIn(fs, j)

\* Request r has launched a job: it was redirected to the job's page.
Launched(r) == req[r].pc = "done" /\ req[r].resp = "redirect /view?job="

\* C3: for every job run has launched: no marker file exists before its
\* process has exited and the shell has gone on; the two markers never both
\* exist; when the shell command is over exactly one marker exists, success
\* if and only if the exit status was 0 and complete otherwise; and every
\* job whose process has exited (with status 0, with an error, or killed)
\* eventually has a marker: no exited process stays without one for ever.
C3_ExactlyOneMarker ==
    /\ [](\A j \in DOMAIN proc :
            /\ proc[j].state # "finished" => Markers(j) = {}
            /\ proc[j].state = "finished" => Cardinality(Markers(j)) = 1)
    /\ [][\A j \in DOMAIN proc :
            (proc[j].state = "exited" /\ proc'[j].state = "finished") =>
                MarkersIn(fs', j) = (IF proc[j].status = <<0>> THEN {"success"}
                                     ELSE {"complete"})]_vars
    /\ []<>(\A j \in DOMAIN proc : proc[j].state = "exited" => Markers(j) # {})

\* The shell command of a job is over and the job has its complete marker
\* and no other.
C3_Witness ==
    \E j \in DOMAIN proc : proc[j].state = "finished" /\ Markers(j) = {"complete"}

\* The characters of s that lie outside the class.
Outside(s, class) == Range(s) \ class

\* C1: a submit request whose log check finds 100 or more lines is answered
\* with the urgent system error whatever its password, and creates no
\* directory, starts no process and writes no log line; and a log that holds
\* 100 or more lines holds 100 or more ever after.
C1_FullLogRejects ==
    [][/\ attemptLog >= LOG_LIMIT => attemptLog' >= LOG_LIMIT
       /\ \A r \in Req :
             (req[r].pc = "idle" /\ req'[r].pc # "idle" /\ attemptLog >= LOG_LIMIT) =>
                 /\ req'[r].pc = "done"
                 /\ req'[r].resp = "Urgent system error"
                 /\ UNCHANGED <<fs, proc, attemptLog, logRecords>>]_vars

\* With exactly 100 failed attempts recorded, on 100 lines, a request with
\* the correct password has been answered with the urgent error.
C1_Witness ==
    \E r \in Req :
        /\ req[r].pc = "done"
        /\ req[r].resp = "Urgent system error"
        /\ check_password(req[r].pass)
        /\ attemptLog = LOG_LIMIT
        /\ logRecords = LOG_LIMIT

\* C2: two accepted submissions that jobname has named within the same second
\* with the same label have distinct names.
C2_DistinctNames ==
    \A r1, r2 \in Req :
        (/\ r1 # r2
         /\ req[r1].pc = "mkdir"
         /\ req[r2].pc = "mkdir"
         /\ req[r1].stamp = req[r2].stamp
         /\ req[r1].label = req[r2].label) => req[r1].name # req[r2].name

\* C4: the status on a job's page is a function of the marker files present
\* when view reads them and is one of three: running ("", no marker),
\* succeeded ("success", the success marker is there, with or without
\* complete), failed ("error", complete is there and success is not); and
\* the page is shown for a directory that holds output.log.
C4_StatusFromMarkers ==
    (out.handler = "view" /\ out.resp = "page") =>
        /\ isfile(fs, out.job, "output.log")
        /\ out.status \in {"", "success", "error"}
        /\ out.status = "" <=> Markers(out.job) = {}
        /\ out.status = "success" <=> "success" \in Markers(out.job)
        /\ out.status = "error" <=> Markers(out.job) = {"complete"}

\* The page of a job that holds both markers shows it as succeeded.
C4_Witness ==
    /\ out.handler = "view"
    /\ out.resp = "page"
    /\ Markers(out.job) = {"success", "complete"}
    /\ out.status = "success"

C6_FailedLists ==
    /\ failed(fs) = sorted({d \in DOMAIN fs : Markers(d) = {"complete"}})
    /\ Range(failed(fs)) \cap Range(succeeded(fs)) = {}
    /\ Range(failed(fs)) \cap Range(currently_running(fs)) = {}

\* C7: for every upload submit has saved, fix_ini has written config.ini, and
\* in it no UNC form \\share\ and no form smb://share/ of a registered share
\* remains, in any letter case.
C7_ConfigRewritten ==
    \A d \in DOMAIN fs :
        isfile(fs, d, "config.original.ini") =>
            /\ isfile(fs, d, "config.ini")
            /\ \A i \in DOMAIN servers :
                  /\ ~Occurs(fs[d]["config.ini"], <<BS, BS>> \o servers[i].name \o <<BS>>, TRUE)
                  /\ ~Occurs(fs[d]["config.ini"], SmbPattern(servers[i].name), TRUE)

\* C8: every name jobname has allocated, and every directory submit has
\* made, is non-empty, holds only characters of [A-Za-z0-9_-], and is left
\* unchanged by the sanitization of /view and /ini.
C8_NamesAreSafe ==
    \A n \in {req[r].name : r \in {q \in Req : req[q].pc = "mkdir" \/ Launched(q)}}
             \cup DOMAIN fs :
        /\ n # <<>>
        /\ Outside(n, JobParamClass) = {}
        /\ sanitise_job(n) = n

\* jobname has named a submission whose label holds only disallowed
\* characters.
C8_Witness ==
    \E r \in Req :
        /\ req[r].pc = "mkdir"
        /\ req[r].label # <<>>
        /\ Outside(req[r].label, JobnameClass) = Range(req[r].label)
        /\ req[r].name # <<>>

\* C9: the password step of a request with a wrong password appends exactly
\* one record to the attempt log, which grows, ends the request with the
\* Password incorrect redirect and leaves the output directory and the
\* processes alone; with the correct password it leaves the log alone; no
\* other step touches the log; and the log's line count never decreases.
C9_LogOnlyGrows ==
    [][/\ attemptLog' >= attemptLog
       /\ \A r \in Req :
             (req[r].pc = "password" /\ req'[r].pc # "password") =>
                 IF check_password(req[r].pass)
                 THEN UNCHANGED <<attemptLog, logRecords>>
                 ELSE /\ logRecords' = logRecords + 1
                      /\ attemptLog' > attemptLog
                      /\ req'[r].pc = "done"
                      /\ req'[r].resp = "redirect /?m=Password incorrect"
                      /\ UNCHANGED <<fs, proc>>
       /\ (attemptLog' # attemptLog \/ logRecords' # logRecords) =>
             \E r \in Req : /\ req[r].pc = "password"
                            /\ req'[r].pc = "done"
                            /\ ~check_password(req[r].pass)]_vars

\* One request was refused for its wrong password and logged once, and
\* another, with the correct password, launched its job and logged nothing.
C9_Witness ==
    /\ \E r1, r2 \in Req :
          /\ req[r1].pc = "done"
          /\ req[r1].resp = "redirect /?m=Password incorrect"
          /\ Launched(r2)

\* C10: the attempt log never holds more than 100 attempt records (a record
\* is at least one line, so more than 100 records are more than 100 lines).
C10_CeilingNotOvershot == logRecords <= LOG_LIMIT

====
